---- MODULE Spec2Model ----
(***************************************************************************)
(* Model of File_Indexer.py: a directory search thread that feeds a pool   *)
(* of file processing threads, a word frequency tracker with a ten-entry   *)
(* heap, and the end-state callback of the pool.                           *)
(*                                                                         *)
(* Characters are ASCII codes, strings are sequences of codes, Python      *)
(* lists are sequences (list index i is sequence index i + 1).             *)
(***************************************************************************)
EXTENDS Integers, Sequences, FiniteSets, TLC

(***************************************************************************)
(* Strings                                                                 *)
(***************************************************************************)
Min(a, b) == IF a < b THEN a ELSE b

\* a delimiter test that takes digits for delimiters
non_delim_letters(ch) ==
    \/ ch \in 65..90
    \/ ch \in 97..122

\* re.match("([A-Za-z0-9])", ch)
non_delim(ch) ==
    \/ ch \in 65..90
    \/ ch \in 97..122
    \/ ch \in 48..57

\* str.lower() on one character
lower_ch(ch) == IF ch \in 65..90 THEN ch + 32 ELSE ch

\* str.lower()
lower(word) == [i \in 1..Len(word) |-> lower_ch(word[i])]

\* the characters str.strip() removes: space, \t, \n, \v, \f, \r
is_space(ch) == ch \in {32, 9, 10, 11, 12, 13}

RECURSIVE lstrip(_)
lstrip(s) ==
    IF s # <<>> /\ is_space(Head(s)) THEN lstrip(Tail(s)) ELSE s

RECURSIVE rstrip(_)
rstrip(s) ==
    IF s # <<>> /\ is_space(s[Len(s)]) THEN rstrip(SubSeq(s, 1, Len(s) - 1)) ELSE s

\* str.strip()
strip(s) == rstrip(lstrip(s))

\* Python slice line[a:b] with 0 <= a, written on 0-based positions
slice(line, a, b) == SubSeq(line, a + 1, Min(b, Len(line)))

\* Python 2 str comparison a < b: bytewise lexicographic
RECURSIVE str_lt(_, _)
str_lt(a, b) ==
    IF b = <<>> THEN FALSE
    ELSE IF a = <<>> THEN TRUE
    ELSE IF Head(a) # Head(b) THEN Head(a) < Head(b)
    ELSE str_lt(Tail(a), Tail(b))

(***************************************************************************)
(* FileProcessingThread.__word_gen                                         *)
(***************************************************************************)
\* the inner while loop: advance pos over letters and digits
RECURSIVE scan_run(_, _)
scan_run(line, pos) ==
    IF pos < Len(line) /\ non_delim(line[pos + 1])
    THEN scan_run(line, pos + 1)
    ELSE pos

\* the outer while loop, from the state (start, pos = start); the yielded words
RECURSIVE word_gen_from(_, _)
word_gen_from(line, start) ==
    IF start < Len(line)
    THEN LET pos == scan_run(line, start)
             word == slice(line, start, pos)
         IN  (IF Len(word) > 1 THEN <<word>> ELSE <<>>)
             \o word_gen_from(line, pos + 1)
    ELSE <<>>

word_gen(line) == word_gen_from(line, 0)

\* the words __parse_file hands to add_instance, in order, for a file's lines
RECURSIVE parse_words(_)
parse_words(lines) ==
    IF lines = <<>> THEN <<>>
    ELSE word_gen(strip(Head(lines))) \o parse_words(Tail(lines))

(***************************************************************************)
(* heapq on lists of (count, word) tuples                                  *)
(***************************************************************************)
\* tuple comparison (c1, w1) < (c2, w2)
cmp_lt(x, y) ==
    \/ x[1] < y[1]
    \/ x[1] = y[1] /\ str_lt(x[2], y[2])

\* heapq._siftdown(heap, startpos, pos), carrying newitem; 0-based positions
RECURSIVE siftdown_loop(_, _, _, _)
siftdown_loop(heap, startpos, pos, newitem) ==
    IF pos > startpos
    THEN LET parentpos == (pos - 1) \div 2
             parent == heap[parentpos + 1]
         IN  IF cmp_lt(newitem, parent)
             THEN siftdown_loop([heap EXCEPT ![pos + 1] = parent],
                                startpos, parentpos, newitem)
             ELSE [heap EXCEPT ![pos + 1] = newitem]
    ELSE [heap EXCEPT ![pos + 1] = newitem]

siftdown(heap, startpos, pos) == siftdown_loop(heap, startpos, pos, heap[pos + 1])

\* heapq._siftup(heap, pos): bubble the smaller child up to a leaf, then
\* sift the displaced item down from there
RECURSIVE siftup_loop(_, _, _, _)
siftup_loop(heap, startpos, pos, newitem) ==
    LET endpos == Len(heap)
        childpos == 2 * pos + 1
    IN  IF childpos < endpos
        THEN LET rightpos == childpos + 1
                 c == IF rightpos < endpos
                         /\ ~cmp_lt(heap[childpos + 1], heap[rightpos + 1])
                      THEN rightpos ELSE childpos
             IN  siftup_loop([heap EXCEPT ![pos + 1] = heap[c + 1]],
                             startpos, c, newitem)
        ELSE siftdown_loop([heap EXCEPT ![pos + 1] = newitem],
                           startpos, pos, newitem)

siftup(heap, pos) == siftup_loop(heap, pos, pos, heap[pos + 1])

\* heapq.heappush(heap, item)
heappush(heap, item) == siftdown(Append(heap, item), 0, Len(heap))

\* heapq.heappop(heap): <<returned item, heap afterwards>>; heap is not empty
heappop(heap) ==
    LET lastelt == heap[Len(heap)]
        rest == SubSeq(heap, 1, Len(heap) - 1)
    IN  IF rest # <<>>
        THEN <<rest[1], siftup([rest EXCEPT ![1] = lastelt], 0)>>
        ELSE <<lastelt, rest>>

\* heapq.heapify(x): for i in reversed(range(n // 2)): _siftup(x, i)
RECURSIVE heapify_from(_, _)
heapify_from(x, i) ==
    IF i < 0 THEN x ELSE heapify_from(siftup(x, i), i - 1)

heapify(x) == heapify_from(x, (Len(x) \div 2) - 1)

(***************************************************************************)
(* WordFreqTracker                                                         *)
(***************************************************************************)
\* the capacity of top_ten in __manage_top10
K == 10

\* add_instance, the store into master_counts: read is the count read for
\* word under the lock, 0 when the word was not in master_counts
count_word(mc, word, read) ==
    IF word \in DOMAIN mc
    THEN [mc EXCEPT ![word] = read + 1]
    ELSE mc @@ (word :> read + 1)

\* add_instance, the update of num_uniq_words on the else branch
count_uniq(n, read) == IF read = 0 THEN n + 1 ELSE n

\* __manage_top10, the for loop over enumerate(self.top_ten) from index i on:
\* <<top_ten afterwards, in_top10>>
RECURSIVE top10_scan(_, _, _, _, _)
top10_scan(tt, i, candidate, candidate_freq, in_top10) ==
    IF i >= Len(tt) THEN <<tt, in_top10>>
    ELSE IF tt[i + 1][2] = candidate
         THEN top10_scan(heapify([tt EXCEPT ![i + 1] = <<candidate_freq, candidate>>]),
                         i + 1, candidate, candidate_freq, TRUE)
         ELSE top10_scan(tt, i + 1, candidate, candidate_freq, in_top10)

\* an eviction test with the comparison the wrong way round
top10_insert_flipped(tt, candidate, candidate_freq) ==
    IF Len(tt) < K
    THEN heappush(tt, <<candidate_freq, candidate>>)
    ELSE IF tt[1][1] > candidate_freq
         THEN heappush(heappop(tt)[2], <<candidate_freq, candidate>>)
         ELSE tt

\* an eviction test that lets a candidate in on a tie with the least count
top10_insert_on_tie(tt, candidate, candidate_freq) ==
    IF Len(tt) < K
    THEN heappush(tt, <<candidate_freq, candidate>>)
    ELSE IF tt[1][1] <= candidate_freq
         THEN heappush(heappop(tt)[2], <<candidate_freq, candidate>>)
         ELSE tt

\* __manage_top10, the branch taken when the candidate is not in top_ten
top10_insert(tt, candidate, candidate_freq) ==
    IF Len(tt) < K
    THEN heappush(tt, <<candidate_freq, candidate>>)
    ELSE IF tt[1][1] < candidate_freq
         THEN heappush(heappop(tt)[2], <<candidate_freq, candidate>>)
         ELSE tt

\* a __manage_top10 that leaves the entry of a word already in top_ten as it is
manage_top10_stale(tt, mc, candidate) ==
    IF \E i \in 1..Len(tt) : tt[i][2] = candidate
    THEN tt
    ELSE top10_insert(tt, candidate, mc[candidate])

\* __manage_top10(candidate) with master_counts = mc: top_ten afterwards
manage_top10(tt, mc, candidate) ==
    LET candidate_freq == mc[candidate]
        scanned == top10_scan(tt, 0, candidate, candidate_freq, FALSE)
    IN  IF scanned[2]
        THEN scanned[1]
        ELSE top10_insert(scanned[1], candidate, candidate_freq)

\* print_top10, the while loop: ten_copy popped into inorder_ten
RECURSIVE pop_all(_)
pop_all(ten_copy) ==
    IF ten_copy = <<>> THEN <<>>
    ELSE LET p == heappop(ten_copy) IN <<p[1]>> \o pop_all(p[2])

\* a report printed without reversed()
reversed_not(s) == s

reversed(s) == [i \in 1..Len(s) |-> s[Len(s) + 1 - i]]

\* a report that lists ten_copy as it lies in the list, without heappop
print_top10_unsorted(tt) == [i \in 1..Len(tt) |-> <<i, tt[i][2], tt[i][1]>>]

\* print_top10: the printed lines, as <<rank, word, count>>
print_top10(tt) ==
    LET inorder_ten == reversed(pop_all(tt))
    IN  [i \in 1..Len(inorder_ten) |-> <<i, inorder_ten[i][2], inorder_ten[i][1]>>]

(***************************************************************************)
(* The file system the run reads: directory trees                          *)
(*   an entry is [name, isdir, entries, isfile, lines]: entries is the     *)
(*   os.listdir order of a directory, isfile is os.path.isfile at          *)
(*   processing time, lines is what open() iterates over.                  *)
(***************************************************************************)
Dir(name, entries) ==
    [name |-> name, isdir |-> TRUE, entries |-> entries, isfile |-> FALSE, lines |-> <<>>]
File(name, lines) ==
    [name |-> name, isdir |-> FALSE, entries |-> <<>>, isfile |-> TRUE, lines |-> lines]
NotAFile(name) ==
    [name |-> name, isdir |-> FALSE, entries |-> <<>>, isfile |-> FALSE, lines |-> <<>>]

s_root == <<114, 111, 111, 116>>                    \* "root"
s_a_txt == <<97, 46, 116, 120, 116>>                \* "a.txt"
s_b_txt == <<98, 46, 116, 120, 116>>                \* "b.txt"
s_b == <<98>>                                       \* "b"
s_notes_md == <<110, 111, 116, 101, 115, 46, 109, 100>>  \* "notes.md"
s_gone_txt == <<103, 111, 110, 101, 46, 116, 120, 116>>  \* "gone.txt"
\* "the cat sat on the mat"
s_the_cat == <<116, 104, 101, 32, 99, 97, 116, 32, 115, 97, 116, 32, 111, 110, 32,
               116, 104, 101, 32, 109, 97, 116>>
\* "the dog sat"
s_the_dog == <<116, 104, 101, 32, 100, 111, 103, 32, 115, 97, 116>>
\* " Ab ab, a\n"
s_Ab_ab == <<32, 65, 98, 32, 97, 98, 44, 32, 97, 10>>

w_the == <<116, 104, 101>>
w_cat == <<99, 97, 116>>
w_sat == <<115, 97, 116>>
w_on == <<111, 110>>
w_mat == <<109, 97, 116>>
w_dog == <<100, 111, 103>>

\* " AB"
s_AB == <<32, 65, 66>>

\* a.txt and b/b.txt of the two-file scenario, in either listing order
TwoFiles == <<File(s_a_txt, <<s_the_cat>>), Dir(s_b, <<File(s_b_txt, <<s_the_dog>>)>>)>>
TwoFilesRev == <<Dir(s_b, <<File(s_b_txt, <<s_the_dog>>)>>), File(s_a_txt, <<s_the_cat>>)>>
\* one file of two lines with mixed case
OneFile == <<File(s_a_txt, <<s_Ab_ab, s_AB>>)>>
\* a text-file name that is not a regular file, and a file that is no text file
WithGone == <<File(s_a_txt, <<s_the_dog>>), NotAFile(s_gone_txt),
              File(s_notes_md, <<s_the_cat>>), File(s_b_txt, <<s_Ab_ab>>)>>

\* the inputs: [isdir: is the root path a directory, entries: its tree]
FileSystems ==
    { [isdir |-> TRUE, entries |-> TwoFiles],
      [isdir |-> TRUE, entries |-> TwoFilesRev],
      [isdir |-> TRUE, entries |-> OneFile],
      [isdir |-> TRUE, entries |-> WithGone],
      [isdir |-> TRUE, entries |-> <<>>],
      [isdir |-> FALSE, entries |-> <<>>] }

\* os.path.join(path, fname)
path_join(path, fname) == path \o <<47>> \o fname

\* re.search('(.txt$)', fname): any character but a newline, then "txt" at the end
is_txt(fname) ==
    /\ Len(fname) >= 4
    /\ SubSeq(fname, Len(fname) - 2, Len(fname)) = <<116, 120, 116>>
    /\ fname[Len(fname) - 3] # 10

\* __find_txt_files(path): the paths handed to add_file, in order
RECURSIVE find_txt_files(_, _)
find_txt_files(path, entries) ==
    IF entries = <<>> THEN <<>>
    ELSE LET e == Head(entries)
             f_path == path_join(path, e.name)
         IN  (IF e.isdir THEN find_txt_files(f_path, e.entries)
              ELSE IF is_txt(e.name) THEN <<f_path>> ELSE <<>>)
             \o find_txt_files(path, Tail(entries))

\* every entry of the tree that is not a directory, as [path, isfile, lines]
RECURSIVE all_files(_, _)
all_files(path, entries) ==
    IF entries = <<>> THEN {}
    ELSE LET e == Head(entries)
             f_path == path_join(path, e.name)
         IN  (IF e.isdir THEN all_files(f_path, e.entries)
              ELSE {[path |-> f_path, isfile |-> e.isfile, lines |-> e.lines]})
             \cup all_files(path, Tail(entries))

\* os.path.isfile(fp)
isfile(tree, fp) == \E f \in all_files(s_root, tree.entries) : f.path = fp /\ f.isfile

\* the lines open(fp) iterates over
file_lines(tree, fp) == (CHOOSE f \in all_files(s_root, tree.entries) : f.path = fp).lines

\* __parse_file(fp), the words it hands to add_instance
parse_file(tree, fp) == parse_words(file_lines(tree, fp))

(***************************************************************************)
(* The run: main thread 0, DirectorySearchThread 1, FileProcessingThreads  *)
(* 2, 3, ... in the order they are created.                                *)
(***************************************************************************)
\* the largest max_threads tried (the program runs with 3)
MaxThreads == 3

MainThread == 0
SearchThread == 1
\* a threading.Lock() nobody holds
Unlocked == -1

VARIABLES
    fs,                 \* the file system under the path entered
    max_threads,        \* WorkerThreadPool.max_threads
    warmup,             \* the add_instance calls made before the tracker is observed
    gen,                \* a __word_gen generator run on its own: its line and locals
    file_queue,         \* WorkerThreadPool.file_queue
    live_threads,       \* WorkerThreadPool.live_threads
    awaiting_endstate,  \* WorkerThreadPool.awaiting_endstate
    lock,               \* WorkerThreadPool.lock: the thread holding it
    tracker_lock,       \* WordFreqTracker.lock: the thread holding it
    master_counts,      \* WordFreqTracker.master_counts
    top_ten,            \* WordFreqTracker.top_ten
    num_uniq_words,     \* WordFreqTracker.num_uniq_words
    pc,                 \* where each thread is
    fp,                 \* FileProcessingThread.run: fp of each worker
    todo,               \* the words the worker's generator has yet to yield
    seen,               \* add_instance: the count the worker read for its word
    nthreads,           \* threads created so far besides the main thread
    dst_i,              \* add_file calls the search thread has completed
    reports,            \* the endstate_cb calls: the calling thread, what it printed
    claimed,            \* history: the paths popped from file_queue, in order
    calls,              \* history: completed add_instance calls per word
    evicted,            \* history: the words that have been removed from top_ten
    parsed              \* history: the paths __parse_file has returned from

pool_vars == <<file_queue, live_threads, awaiting_endstate, lock>>
tracker_vars == <<tracker_lock, master_counts, top_ten, num_uniq_words, calls, evicted>>
input_vars == <<fs, max_threads, warmup, gen>>
vars == <<fs, max_threads, warmup, gen, file_queue, live_threads, awaiting_endstate, lock,
          tracker_lock, master_counts, top_ten, num_uniq_words, pc, fp, todo,
          seen, nthreads, dst_i, reports, claimed, calls, evicted, parsed>>

\* the paths the search thread submits, in order
paths == find_txt_files(s_root, fs.entries)

Workers == 2..(1 + Len(paths))
Threads == 0..(1 + Len(paths))

\* no generator is run on its own
NoGen == [line |-> <<>>, start |-> 0, yielded |-> <<>>, pass |-> 0, first |-> <<>>]

\* the number of times endstate_cb has been called
cb_count == Len(reports)

InitTracker ==
    /\ master_counts = <<>>
    /\ top_ten = <<>>
    /\ num_uniq_words = 0
    /\ tracker_lock = Unlocked
    /\ calls = <<>>
    /\ evicted = {}

InitPool ==
    /\ file_queue = <<>>
    /\ live_threads = 0
    /\ awaiting_endstate = FALSE
    /\ lock = Unlocked

Init ==
    /\ fs \in FileSystems
    /\ max_threads \in 1..MaxThreads
    /\ warmup = <<>>
    /\ gen = NoGen
    /\ InitPool
    /\ InitTracker
    /\ pc = [t \in Threads |-> IF t = MainThread THEN "start" ELSE "unborn"]
    /\ fp = [t \in Workers |-> <<>>]
    /\ todo = [t \in Workers |-> <<>>]
    /\ seen = [t \in Workers |-> 0]
    /\ nthreads = 0
    /\ dst_i = 0
    /\ reports = <<>>
    /\ claimed = <<>>
    /\ parsed = {}

goto(t, label) == pc' = [pc EXCEPT ![t] = label]

\* a lock that excludes nobody
acquirable_always(holder) == TRUE

\* `with self.lock` can be entered: nobody holds the lock
acquirable(holder) == holder = Unlocked

\* a critical section left with the lock still held
release_forgotten(holder) == holder

\* the end of `with self.lock`: the lock afterwards
release(holder) == Unlocked

\* the words that have an entry in top_ten
top_words(tt) == {tt[i][2] : i \in 1..Len(tt)}

\* history: one more add_instance call for word has returned
returned(history, word) ==
    IF word \in DOMAIN history
    THEN [history EXCEPT ![word] = @ + 1]
    ELSE history @@ (word :> 1)

(***************************************************************************)
(* main                                                                    *)
(***************************************************************************)
\* dst = DirectorySearchThread(path, thread_pool); dst.start()
main_start ==
    /\ pc[MainThread] = "start"
    /\ pc' = [pc EXCEPT ![MainThread] = "join", ![SearchThread] = "run"]
    /\ nthreads' = nthreads + 1
    /\ UNCHANGED <<input_vars, pool_vars, tracker_vars, fp, todo, seen, dst_i, reports,
                   claimed, parsed>>

\* dst.join(): returns once the search thread has ended, normally or not
main_join ==
    /\ pc[MainThread] = "join"
    /\ pc[SearchThread] \in {"done", "crashed"}
    /\ goto(MainThread, "wait_for_endstate")
    /\ UNCHANGED <<input_vars, pool_vars, tracker_vars, fp, todo, seen, nthreads, dst_i,
                   reports, claimed, parsed>>

\* wait_for_endstate: self.awaiting_endstate = True
wait_for_endstate ==
    /\ pc[MainThread] = "wait_for_endstate"
    /\ awaiting_endstate' = TRUE
    /\ goto(MainThread, "endstate_awaiting")
    /\ UNCHANGED <<input_vars, file_queue, live_threads, lock, tracker_vars, fp, todo, seen,
                   nthreads, dst_i, reports, claimed, parsed>>

(***************************************************************************)
(* DirectorySearchThread                                                   *)
(***************************************************************************)
\* run: the root is checked, then the tree is walked up to the first add_file
dst_run ==
    /\ pc[SearchThread] = "run"
    /\ goto(SearchThread, IF ~fs.isdir THEN "crashed"
                          ELSE IF paths = <<>> THEN "done" ELSE "add_file")
    /\ UNCHANGED <<input_vars, pool_vars, tracker_vars, fp, todo, seen, nthreads, dst_i,
                   reports, claimed, parsed>>

\* add_file: self.file_queue.append(fp)
add_file ==
    /\ pc[SearchThread] = "add_file"
    /\ file_queue' = Append(file_queue, paths[dst_i + 1])
    /\ goto(SearchThread, "alloc_lock")
    /\ UNCHANGED <<input_vars, live_threads, awaiting_endstate, lock, tracker_vars, fp,
                   todo, seen, nthreads, dst_i, reports, claimed, parsed>>

\* __attempt_alloc_thread: with self.lock, entered
alloc_acquire ==
    /\ pc[SearchThread] = "alloc_lock"
    /\ acquirable(lock)
    /\ lock' = SearchThread
    /\ goto(SearchThread, "alloc")
    /\ UNCHANGED <<input_vars, file_queue, live_threads, awaiting_endstate,
                   tracker_vars, fp, todo, seen, nthreads, dst_i, reports, claimed, parsed>>

\* an allocation test that is off by one
may_alloc_off_by_one(live, max) == live <= max

\* __attempt_alloc_thread: if self.live_threads < self.max_threads
may_alloc(live, max) == live < max

\* __attempt_alloc_thread, the body under the lock; then the walk goes on to
\* the next add_file or ends
attempt_alloc_thread ==
    /\ pc[SearchThread] = "alloc"
    /\ LET next == IF dst_i + 1 < Len(paths) THEN "add_file" ELSE "done"
       IN  IF may_alloc(live_threads, max_threads)
           THEN /\ live_threads' = live_threads + 1
                /\ nthreads' = nthreads + 1
                /\ pc' = [pc EXCEPT ![SearchThread] = next, ![nthreads + 1] = "while"]
           ELSE /\ goto(SearchThread, next)
                /\ UNCHANGED <<live_threads, nthreads>>
    /\ lock' = release(lock)
    /\ dst_i' = dst_i + 1
    /\ UNCHANGED <<input_vars, file_queue, awaiting_endstate, tracker_vars, fp, todo, seen,
                   reports, claimed, parsed>>

(***************************************************************************)
(* FileProcessingThread                                                    *)
(***************************************************************************)
\* run: while self.worker_pool.file_queue
run_while(w) ==
    /\ pc[w] = "while"
    /\ goto(w, IF file_queue # <<>> THEN "pop" ELSE "dec_lock")
    /\ UNCHANGED <<input_vars, pool_vars, tracker_vars, fp, todo, seen, nthreads, dst_i,
                   reports, claimed, parsed>>

\* a claim that reads file_queue[0] and leaves it in the queue
pop0_peek(queue) == queue

\* list.pop(0), the list afterwards
pop0(queue) == Tail(queue)

\* run: fp = self.worker_pool.file_queue.pop(0); IndexError on an empty list
\* ends the thread
run_pop(w) ==
    /\ pc[w] = "pop"
    /\ IF file_queue = <<>>
       THEN /\ goto(w, "crashed")
            /\ UNCHANGED <<file_queue, fp, claimed>>
       ELSE /\ fp' = [fp EXCEPT ![w] = Head(file_queue)]
            /\ file_queue' = pop0(file_queue)
            /\ claimed' = Append(claimed, Head(file_queue))
            /\ goto(w, "parse")
    /\ UNCHANGED <<input_vars, live_threads, awaiting_endstate, lock, tracker_vars,
                   todo, seen, nthreads, dst_i, reports, parsed>>

\* __parse_file: the isfile test (an exception ends the thread), then the
\* file is opened and tokenized up to the first add_instance
run_parse(w) ==
    /\ pc[w] = "parse"
    /\ IF ~isfile(fs, fp[w])
       THEN /\ goto(w, "crashed")
            /\ UNCHANGED <<todo, seen, parsed>>
       ELSE LET words == parse_file(fs, fp[w])
            IN  /\ todo' = [todo EXCEPT ![w] = words]
                /\ IF words = <<>>
                   THEN goto(w, "while") /\ parsed' = parsed \cup {fp[w]}
                   ELSE goto(w, "add_lock") /\ UNCHANGED parsed
    /\ UNCHANGED <<input_vars, pool_vars, tracker_vars, fp, seen, nthreads, dst_i,
                   reports, claimed>>

\* add_instance: word = word.lower(); with self.lock, entered
add_acquire(w) ==
    /\ pc[w] = "add_lock"
    /\ acquirable(tracker_lock)
    /\ tracker_lock' = w
    /\ goto(w, "add_test")
    /\ UNCHANGED <<input_vars, pool_vars, master_counts, top_ten, num_uniq_words, calls,
                   evicted, fp, todo, seen, nthreads, dst_i, reports, claimed, parsed>>

\* add_instance: `if word in self.master_counts` and the read of the count
\* that `+= 1` starts with (0 stands for a word not in master_counts)
add_test(w) ==
    /\ pc[w] = "add_test"
    /\ LET word == lower(Head(todo[w]))
       IN  seen' = [seen EXCEPT ![w] = IF word \in DOMAIN master_counts
                                       THEN master_counts[word] ELSE 0]
    /\ goto(w, "add_count")
    /\ UNCHANGED <<input_vars, pool_vars, tracker_vars, fp, todo, nthreads, dst_i,
                   reports, claimed, parsed>>

\* add_instance: the store that ends `self.master_counts[word] += 1`, or
\* `self.master_counts[word] = 1; self.num_uniq_words += 1`
add_count(w) ==
    /\ pc[w] = "add_count"
    /\ LET word == lower(Head(todo[w]))
       IN  /\ master_counts' = count_word(master_counts, word, seen[w])
           /\ num_uniq_words' = count_uniq(num_uniq_words, seen[w])
    /\ goto(w, "add_top10")
    /\ UNCHANGED <<input_vars, pool_vars, tracker_lock, top_ten, calls, evicted, fp, todo, seen,
                   nthreads, dst_i, reports, claimed, parsed>>

\* add_instance: self.__manage_top10(word), the lock released, and the
\* generator resumed up to the next word or the end of the file
add_top10(w) ==
    /\ pc[w] = "add_top10"
    /\ LET word == lower(Head(todo[w]))
       IN  /\ top_ten' = manage_top10(top_ten, master_counts, word)
           /\ calls' = returned(calls, word)
           /\ evicted' = evicted \cup (top_words(top_ten) \ top_words(top_ten'))
    /\ tracker_lock' = release(tracker_lock)
    /\ todo' = [todo EXCEPT ![w] = Tail(@)]
    /\ IF Tail(todo[w]) = <<>>
       THEN goto(w, "while") /\ parsed' = parsed \cup {fp[w]}
       ELSE goto(w, "add_lock") /\ UNCHANGED parsed
    /\ UNCHANGED <<input_vars, pool_vars, master_counts, num_uniq_words, fp, seen,
                   nthreads, dst_i, reports, claimed>>

\* notify_thread_finished, __dec_threads: with self.lock, entered
dec_acquire(w) ==
    /\ pc[w] = "dec_lock"
    /\ acquirable(lock)
    /\ lock' = w
    /\ goto(w, "dec")
    /\ UNCHANGED <<input_vars, file_queue, live_threads, awaiting_endstate,
                   tracker_vars, fp, todo, seen, nthreads, dst_i, reports, claimed, parsed>>

\* __dec_threads: self.live_threads -= 1
dec(live) == live - 1

\* __dec_threads, the body under the lock
dec_threads(w) ==
    /\ pc[w] = "dec"
    /\ live_threads' = dec(live_threads)
    /\ lock' = release(lock)
    /\ goto(w, "endstate_awaiting")
    /\ UNCHANGED <<input_vars, file_queue, awaiting_endstate, tracker_vars, fp, todo, seen,
                   nthreads, dst_i, reports, claimed, parsed>>

(***************************************************************************)
(* __is_endstate, evaluated by the main thread in wait_for_endstate and by *)
(* a worker in notify_thread_finished: the three operands of the `and` are *)
(* read one after the other, with no lock held                             *)
(***************************************************************************)
\* a finish check that does not wait for wait_for_endstate
endstate_awaiting_test_skipped(awaiting) == TRUE

\* __is_endstate, the first operand
endstate_awaiting_test(awaiting) == awaiting

\* a finish check that forgets the live workers
endstate_live_test_skipped(live) == TRUE

\* __is_endstate, the second operand
endstate_live_test(live) == live = 0

\* __is_endstate, the third operand
endstate_queue_test(queue) == queue = <<>>

\* self.awaiting_endstate and ...
is_endstate_awaiting(t) ==
    /\ pc[t] = "endstate_awaiting"
    /\ goto(t, IF endstate_awaiting_test(awaiting_endstate) THEN "endstate_live" ELSE "done")
    /\ UNCHANGED <<input_vars, pool_vars, tracker_vars, fp, todo, seen, nthreads, dst_i,
                   reports, claimed, parsed>>

\* ... self.live_threads == 0 and ...
is_endstate_live(t) ==
    /\ pc[t] = "endstate_live"
    /\ goto(t, IF endstate_live_test(live_threads) THEN "endstate_queue" ELSE "done")
    /\ UNCHANGED <<input_vars, pool_vars, tracker_vars, fp, todo, seen, nthreads, dst_i,
                   reports, claimed, parsed>>

\* ... not self.file_queue
is_endstate_queue(t) ==
    /\ pc[t] = "endstate_queue"
    /\ goto(t, IF endstate_queue_test(file_queue) THEN "endstate_cb" ELSE "done")
    /\ UNCHANGED <<input_vars, pool_vars, tracker_vars, fp, todo, seen, nthreads, dst_i,
                   reports, claimed, parsed>>

\* self.endstate_cb(): tracker.print_top10
endstate_cb(t) ==
    /\ pc[t] = "endstate_cb"
    /\ reports' = Append(reports, [thread |-> t, printed |-> print_top10(top_ten)])
    /\ goto(t, "done")
    /\ UNCHANGED <<input_vars, pool_vars, tracker_vars, fp, todo, seen, nthreads, dst_i,
                   claimed, parsed>>

\* the threads that evaluate __is_endstate
Finishers == {MainThread} \cup Workers

Next ==
    \/ main_start
    \/ main_join
    \/ wait_for_endstate
    \/ dst_run
    \/ add_file
    \/ alloc_acquire
    \/ attempt_alloc_thread
    \/ \E w \in Workers : run_while(w)
    \/ \E w \in Workers : run_pop(w)
    \/ \E w \in Workers : run_parse(w)
    \/ \E w \in Workers : add_acquire(w)
    \/ \E w \in Workers : add_test(w)
    \/ \E w \in Workers : add_count(w)
    \/ \E w \in Workers : add_top10(w)
    \/ \E w \in Workers : dec_acquire(w)
    \/ \E w \in Workers : dec_threads(w)
    \/ \E t \in Finishers : is_endstate_awaiting(t)
    \/ \E t \in Finishers : is_endstate_live(t)
    \/ \E t \in Finishers : is_endstate_queue(t)
    \/ \E t \in Finishers : endstate_cb(t)

Spec == Init /\ [][Next]_vars

(***************************************************************************)
(* The tracker alone: add_instance called again and again by one caller,   *)
(* with more than ten different words.  The tracker is observed after the  *)
(* calls of a warm-up have returned.                                       *)
(***************************************************************************)
\* the number of add_instance calls made after the warm-up
MaxCalls == 4
\* the number of print_top10 calls made after them
MaxReports == 1

v_ab == <<97, 98>>          \* "ab"
v_Ab == <<65, 98>>          \* "Ab"
v_b2 == <<98, 50>>          \* "b2"
v_ba == <<98, 97>>          \* "ba"
v_bb == <<98, 98>>          \* "bb"
v_c0 == <<99, 48>>          \* "c0"
v_cc == <<99, 99>>          \* "cc"
v_d1 == <<100, 49>>         \* "d1"
v_e5 == <<101, 53>>         \* "e5"
v_zz == <<122, 122>>        \* "zz"

\* the words passed to add_instance
Vocabulary == {v_ab, v_Ab, v_b2, v_ba, v_bb, v_c0, v_cc, w_cat, v_d1, w_dog, v_e5, v_zz}

\* the warm-ups: none; nine words in ascending and in descending order; ten
\* words twice each
Warmups ==
    { <<>>,
      <<v_ab, v_b2, v_ba, v_bb, v_c0, w_cat, v_cc, v_d1, w_dog>>,
      <<v_zz, v_e5, w_dog, v_d1, v_cc, w_cat, v_c0, v_bb, v_ba>>,
      <<v_cc, v_ab, w_dog, v_b2, v_zz, v_ba, v_Ab, v_bb, v_c0, w_cat, v_d1,
        v_zz, v_d1, v_cc, w_cat, v_c0, v_bb, v_ba, v_b2, w_dog>> }

RECURSIVE sum_counts(_, _)
sum_counts(mc, dom) ==
    IF dom = {} THEN 0
    ELSE LET word == CHOOSE x \in dom : TRUE
         IN  mc[word] + sum_counts(mc, dom \ {word})

\* the tracker after add_instance(word) has run from call to return on the
\* tracker t = [master_counts, num_uniq_words, top_ten, calls, evicted]
tracked(t, word) ==
    LET folded == lower(word)
        read == IF folded \in DOMAIN t.master_counts THEN t.master_counts[folded] ELSE 0
        counts == count_word(t.master_counts, folded, read)
        top == manage_top10(t.top_ten, counts, folded)
    IN  [master_counts |-> counts,
         num_uniq_words |-> count_uniq(t.num_uniq_words, read),
         top_ten |-> top,
         calls |-> returned(t.calls, folded),
         evicted |-> t.evicted \cup (top_words(t.top_ten) \ top_words(top))]

\* the tracker after add_instance has been called with each of words in turn
RECURSIVE warmed_up(_, _)
warmed_up(t, words) ==
    IF words = <<>> THEN t ELSE warmed_up(tracked(t, Head(words)), Tail(words))

\* add_instance(word), from the call to the return, with no other caller;
\* as in the program, the words are recorded before the tracker is printed
add_instance(word) ==
    /\ sum_counts(calls, DOMAIN calls) < Len(warmup) + MaxCalls
    /\ reports = <<>>
    /\ tracker_lock = Unlocked
    /\ LET t == tracked([master_counts |-> master_counts,
                         num_uniq_words |-> num_uniq_words,
                         top_ten |-> top_ten,
                         calls |-> calls,
                         evicted |-> evicted], word)
       IN  /\ master_counts' = t.master_counts
           /\ num_uniq_words' = t.num_uniq_words
           /\ top_ten' = t.top_ten
           /\ calls' = t.calls
           /\ evicted' = t.evicted
    /\ UNCHANGED <<input_vars, pool_vars, tracker_lock, pc, fp, todo, seen, nthreads,
                   dst_i, reports, claimed, parsed>>

InitTracked ==
    /\ fs = [isdir |-> TRUE, entries |-> <<>>]
    /\ max_threads = 1
    /\ warmup \in Warmups
    /\ gen = NoGen
    /\ InitPool
    /\ LET t == warmed_up([master_counts |-> <<>>, num_uniq_words |-> 0,
                           top_ten |-> <<>>, calls |-> <<>>, evicted |-> {}], warmup)
       IN  /\ master_counts = t.master_counts
           /\ num_uniq_words = t.num_uniq_words
           /\ top_ten = t.top_ten
           /\ calls = t.calls
           /\ evicted = t.evicted
    /\ tracker_lock = Unlocked
    /\ pc = [t \in Threads |-> IF t = MainThread THEN "start" ELSE "unborn"]
    /\ fp = [t \in Workers |-> <<>>]
    /\ todo = [t \in Workers |-> <<>>]
    /\ seen = [t \in Workers |-> 0]
    /\ nthreads = 0
    /\ dst_i = 0
    /\ reports = <<>>
    /\ claimed = <<>>
    /\ parsed = {}

\* print_top10(), called after any number of add_instance calls: ten_copy is
\* a copy, the tracker is only read
tracker_print_top10 ==
    /\ Len(reports) < MaxReports
    /\ tracker_lock = Unlocked
    /\ reports' = Append(reports, [thread |-> MainThread, printed |-> print_top10(top_ten)])
    /\ UNCHANGED <<input_vars, pool_vars, tracker_vars, pc, fp, todo, seen, nthreads,
                   dst_i, claimed, parsed>>

NextTracked ==
    \/ \E word \in Vocabulary : add_instance(word)
    \/ tracker_print_top10

SpecTracker == InitTracked /\ [][NextTracked]_vars

(***************************************************************************)
(* Five files and one worker: the search thread submits all five paths     *)
(* before the worker it started takes its first step.                      *)
(***************************************************************************)
s_c_txt == <<99, 46, 116, 120, 116>>                \* "c.txt"
s_d_txt == <<100, 46, 116, 120, 116>>               \* "d.txt"
s_e_txt == <<101, 46, 116, 120, 116>>               \* "e.txt"

FiveFiles == <<File(s_a_txt, <<s_AB>>), File(s_b_txt, <<>>), File(s_c_txt, <<s_Ab_ab>>),
               File(s_d_txt, <<s_AB>>), File(s_e_txt, <<s_the_dog>>)>>

InitFive ==
    /\ fs = [isdir |-> TRUE, entries |-> FiveFiles]
    /\ max_threads = 1
    /\ warmup = <<>>
    /\ gen = NoGen
    /\ InitPool
    /\ InitTracker
    /\ pc = [t \in Threads |-> IF t = MainThread THEN "start" ELSE "unborn"]
    /\ fp = [t \in Workers |-> <<>>]
    /\ todo = [t \in Workers |-> <<>>]
    /\ seen = [t \in Workers |-> 0]
    /\ nthreads = 0
    /\ dst_i = 0
    /\ reports = <<>>
    /\ claimed = <<>>
    /\ parsed = {}

\* the search thread has returned from its last add_file
walk_done == pc[SearchThread] = "done"

\* the steps of the run, a worker being scheduled only once the walk is done
NextFive ==
    \/ main_start
    \/ main_join
    \/ wait_for_endstate
    \/ dst_run
    \/ add_file
    \/ alloc_acquire
    \/ attempt_alloc_thread
    \/ walk_done /\ \E w \in Workers : run_while(w)
    \/ walk_done /\ \E w \in Workers : run_pop(w)
    \/ walk_done /\ \E w \in Workers : run_parse(w)
    \/ walk_done /\ \E w \in Workers : add_acquire(w)
    \/ walk_done /\ \E w \in Workers : add_test(w)
    \/ walk_done /\ \E w \in Workers : add_count(w)
    \/ walk_done /\ \E w \in Workers : add_top10(w)
    \/ walk_done /\ \E w \in Workers : dec_acquire(w)
    \/ walk_done /\ \E w \in Workers : dec_threads(w)
    \/ \E t \in Finishers : is_endstate_awaiting(t)
    \/ \E t \in Finishers : is_endstate_live(t)
    \/ \E t \in Finishers : is_endstate_queue(t)
    \/ \E t \in Finishers : endstate_cb(t)

SpecFive == InitFive /\ [][NextFive]_vars

(***************************************************************************)
(* __word_gen alone: the generator is run to its end on a line, one pass   *)
(* of the outer while loop at a time, and then once more on the same line. *)
(***************************************************************************)
\* the longest line tried
MaxLen == 5

\* the characters of the lines: "a", "B", "7", " "
Alphabet == {97, 66, 55, 32}

RECURSIVE lines_upto(_)
lines_upto(n) ==
    IF n = 0 THEN {<<>>}
    ELSE LET shorter == lines_upto(n - 1)
         IN  shorter \cup {Append(l, ch) : l \in shorter, ch \in Alphabet}

\* the lines handed to __word_gen
Lines == lines_upto(MaxLen)

\* __word_gen(line) called: start = 0, pos = 0, nothing yielded yet
word_gen_called(line, pass, first) ==
    [line |-> line, start |-> 0, yielded |-> <<>>, pass |-> pass, first |-> first]

InitWordGen ==
    /\ fs = [isdir |-> TRUE, entries |-> <<>>]
    /\ max_threads = 1
    /\ warmup = <<>>
    /\ gen \in {word_gen_called(line, 1, <<>>) : line \in Lines}
    /\ InitPool
    /\ InitTracker
    /\ pc = [t \in Threads |-> IF t = MainThread THEN "start" ELSE "unborn"]
    /\ fp = [t \in Workers |-> <<>>]
    /\ todo = [t \in Workers |-> <<>>]
    /\ seen = [t \in Workers |-> 0]
    /\ nthreads = 0
    /\ dst_i = 0
    /\ reports = <<>>
    /\ claimed = <<>>
    /\ parsed = {}

\* the generator has left the outer while loop (pos = start at its test)
word_gen_ended == gen.start >= Len(gen.line)

\* one pass of the outer while loop: the inner loop, the slice, the yield of
\* a word longer than one character, start = pos + 1, pos = start
word_gen_pass ==
    /\ gen.pass >= 1
    /\ ~word_gen_ended
    /\ LET pos == scan_run(gen.line, gen.start)
           word == slice(gen.line, gen.start, pos)
       IN  gen' = [gen EXCEPT !.yielded = IF Len(word) > 1 THEN Append(@, word) ELSE @,
                              !.start = pos + 1]
    /\ UNCHANGED <<fs, max_threads, warmup, pool_vars, tracker_vars, pc, fp, todo, seen,
                   nthreads, dst_i, reports, claimed, parsed>>

\* __word_gen called again with the same line once the first generator has
\* ended; what the first one yielded is kept
word_gen_again ==
    /\ gen.pass = 1
    /\ word_gen_ended
    /\ gen' = word_gen_called(gen.line, 2, gen.yielded)
    /\ UNCHANGED <<fs, max_threads, warmup, pool_vars, tracker_vars, pc, fp, todo, seen,
                   nthreads, dst_i, reports, claimed, parsed>>

NextWordGen ==
    \/ word_gen_pass
    \/ word_gen_again

SpecWordGen == InitWordGen /\ [][NextWordGen]_vars

(***************************************************************************)
(* Vocabulary of the claims                                                *)
(***************************************************************************)
\* worker w has been started / has decremented live_threads
started(w) == pc[w] # "unborn"
reported(w) ==
    pc[w] \in {"endstate_awaiting", "endstate_live", "endstate_queue", "endstate_cb", "done"}
\* worker w has claimed a path and is working on it
processing(w) == pc[w] \in {"parse", "add_lock", "add_test", "add_count", "add_top10"}

Range(seq) == {seq[i] : i \in 1..Len(seq)}

\* the paths add_file has appended so far
submitted ==
    Range(SubSeq(paths, 1, IF pc[SearchThread] \in {"alloc_lock", "alloc"}
                           THEN dst_i + 1 ELSE dst_i))

\* every path the search thread submits is a regular file when it is processed
AllRegular == \A i \in 1..Len(paths) : isfile(fs, paths[i])

\* no thread can take a step any more: each has returned, has died of an
\* exception or was never started
Terminated == \A t \in Threads : pc[t] \in {"done", "crashed", "unborn"}

\* wait_for_endstate has been called
EndstateAwaited == pc[MainThread] \notin {"start", "join", "wait_for_endstate"}

\* C1: endstate_cb is invoked at most once in every run
C1_CallbackAtMostOnce == cb_count <= 1

\* C2: a run in which every submitted path is a regular file does not end
\* without endstate_cb having been invoked (every run is finite: each step
\* moves its thread forward, so "eventually" is a statement about the state
\* in which no thread can move any more)
C2_CallbackEventually == (Terminated /\ AllRegular) => cb_count >= 1

\* C3: whenever endstate_cb is invoked (a thread is about to call it or has
\* called it), the queue is empty, every started worker has left its loop and
\* reported finished, and every submitted path has been parsed to its end
C3_CallbackQuiescent ==
    (cb_count >= 1 \/ \E t \in Finishers : pc[t] = "endstate_cb")
    => /\ file_queue = <<>>
       /\ pc[SearchThread] \in {"done", "crashed"}
       /\ \A w \in Workers : started(w) => reported(w)
       /\ submitted = Range(paths)
       /\ parsed = submitted

\* C3 witness: the main thread ended wait_for_endstate without the callback
\* while a worker was still busy, and that worker then made the call
C3_Witness ==
    /\ pc[MainThread] = "done"
    /\ cb_count = 1
    /\ reports[1].thread \in Workers
    /\ Len(paths) >= 2

\* C4: before wait_for_endstate is called, endstate_cb is not invoked
C4_NoCallbackBeforeAwait ==
    ~EndstateAwaited
    => /\ cb_count = 0
       /\ \A t \in Finishers : pc[t] \notin {"endstate_live", "endstate_queue", "endstate_cb"}

\* C4 witness: the search thread is still running, the queue is empty, no
\* worker is live, and a worker has gone through its finish check
C4_Witness ==
    /\ pc[SearchThread] = "add_file"
    /\ file_queue = <<>>
    /\ live_threads = 0
    /\ \E w \in Workers : pc[w] = "done"
    /\ cb_count = 0

\* C5: live_threads is the number of workers started and not yet reported
\* finished and never exceeds max_threads; workers are started only by
\* __attempt_alloc_thread inside add_file, at most one per call
NumLive == Cardinality({w \in Workers : started(w) /\ ~reported(w)})
NumStarted == Cardinality({w \in Workers : started(w)})

C5_LiveCount ==
    /\ live_threads = NumLive
    /\ 0 <= live_threads
    /\ live_threads <= max_threads
    /\ NumStarted = nthreads - (IF pc[SearchThread] = "unborn" THEN 0 ELSE 1)
    /\ NumStarted <= dst_i

\* C5 witness: the pool is full, a worker has already reported finished and
\* an add_file call has started no worker
C5_Witness ==
    /\ live_threads = max_threads
    /\ \E w \in Workers : reported(w)
    /\ dst_i > NumStarted

\* C6: no path is popped from file_queue twice
C6_ClaimedOnce ==
    /\ \A i, j \in 1..Len(claimed) : claimed[i] = claimed[j] => i = j
    /\ \A v, w \in Workers : (processing(v) /\ processing(w) /\ fp[v] = fp[w]) => v = w
    /\ Range(claimed) \cap Range(file_queue) = {}

\* C6 witness: two workers are processing files at the same time
C6_Witness ==
    \E v, w \in Workers : v # w /\ processing(v) /\ processing(w)

\* C7: a run in which every submitted path is a regular file does not end
\* with a path left in file_queue
C7_QueueDrains == (Terminated /\ AllRegular) => file_queue = <<>>

\* the words of every submitted file, in submission order, as tokenized
RECURSIVE words_of(_)
words_of(ps) ==
    IF ps = <<>> THEN <<>>
    ELSE (IF isfile(fs, Head(ps)) THEN parse_file(fs, Head(ps)) ELSE <<>>)
         \o words_of(Tail(ps))

\* how often word occurs, case folded, in words
occurrences(words, word) == Cardinality({i \in 1..Len(words) : lower(words[i]) = word})

\* the add_instance calls for word that have incremented but not yet returned
in_flight(word) ==
    Cardinality({w \in Workers : pc[w] = "add_top10" /\ lower(Head(todo[w])) = word})

completed(word) == IF word \in DOMAIN calls THEN calls[word] ELSE 0

\* C8: no count update is lost: master_counts[word] is the number of
\* add_instance calls for word that have returned plus those that hold the
\* lock past their increment; when endstate_cb is invoked the counts are the
\* occurrences of each word in the submitted files, whatever the interleaving,
\* and their sum is the number of words tokenized
C8_NoLostCount ==
    /\ DOMAIN calls \subseteq DOMAIN master_counts
    /\ \A word \in DOMAIN master_counts :
           master_counts[word] = completed(word) + in_flight(word)
    /\ tracker_lock = Unlocked => master_counts = calls
    /\ cb_count >= 1 =>
           /\ DOMAIN master_counts = {lower(x) : x \in Range(words_of(paths))}
           /\ \A word \in DOMAIN master_counts :
                  master_counts[word] = occurrences(words_of(paths), word)
           /\ sum_counts(master_counts, DOMAIN master_counts) = Len(words_of(paths))

\* C8 witness: one worker holds the tracker lock past its increment while
\* another worker waits to count the same word
C8_Witness ==
    \E v, w \in Workers :
        /\ v # w
        /\ pc[v] = "add_top10"
        /\ pc[w] = "add_lock"
        /\ lower(Head(todo[v])) = lower(Head(todo[w]))
        /\ master_counts[lower(Head(todo[v]))] >= 2

\* the least count of an entry of top_ten
min_count(tt) ==
    CHOOSE c \in {tt[i][1] : i \in 1..Len(tt)} : \A i \in 1..Len(tt) : c <= tt[i][1]

\* C9: after any sequence of add_instance calls top_ten has at most K entries,
\* for pairwise different words, each with the word's count; it has fewer than
\* K entries exactly while fewer than K different words have been counted; and
\* once K different words have been counted no word outside top_ten has a
\* count above the least count in top_ten
C9_TopK ==
    /\ Len(top_ten) <= K
    /\ \A i, j \in 1..Len(top_ten) : top_ten[i][2] = top_ten[j][2] => i = j
    /\ \A i \in 1..Len(top_ten) :
           /\ top_ten[i][2] \in DOMAIN master_counts
           /\ top_ten[i][1] = master_counts[top_ten[i][2]]
    /\ num_uniq_words = Cardinality(DOMAIN master_counts)
    /\ Len(top_ten) = Min(K, num_uniq_words)
    /\ num_uniq_words >= K =>
           \A word \in DOMAIN master_counts \ top_words(top_ten) :
               master_counts[word] <= min_count(top_ten)

\* C9 witness: more than K different words have been counted, a word has been
\* evicted and is outside top_ten, another evicted word is back in it
C9_Witness ==
    /\ num_uniq_words > K
    /\ \E word \in evicted : word \notin top_words(top_ten)
    /\ \E word \in evicted : word \in top_words(top_ten)

\* the scenario of a.txt and b/b.txt
TwoFileScenario == fs.isdir /\ fs.entries \in {TwoFiles, TwoFilesRev}

TwoFileCounts ==
    /\ DOMAIN master_counts = {w_the, w_cat, w_sat, w_on, w_mat, w_dog}
    /\ master_counts[w_the] = 3
    /\ master_counts[w_cat] = 1
    /\ master_counts[w_sat] = 2
    /\ master_counts[w_on] = 1
    /\ master_counts[w_mat] = 1
    /\ master_counts[w_dog] = 1

report_entries(printed) == {<<printed[i][3], printed[i][2]>> : i \in 1..Len(printed)}

\* the orders of a report: ranks 1, 2, ..., counts never increasing, and of
\* two entries with the same count the greater word first
report_ordered(printed) ==
    /\ \A i \in 1..Len(printed) : printed[i][1] = i
    /\ \A i \in 1..(Len(printed) - 1) :
           \/ printed[i][3] > printed[i + 1][3]
           \/ printed[i][3] = printed[i + 1][3] /\ str_lt(printed[i + 1][2], printed[i][2])

\* C11: a print_top10 call lists exactly the entries of top_ten, ranked 1 to
\* the number of entries, in non-increasing order of count; the order of
\* entries with the same count depends on the entries only (the greater word
\* comes first), not on the order the words were recorded in; and the call
\* leaves top_ten and master_counts as they were
C11_ReportOfTopTen ==
    [][reports' # reports =>
          LET printed == reports'[Len(reports')].printed
          IN  /\ Len(printed) = Len(top_ten)
              /\ report_entries(printed) = Range(top_ten)
              /\ report_ordered(printed)
              /\ top_ten' = top_ten
              /\ master_counts' = master_counts]_vars

\* C11 witness: a report of K entries has been printed, with an evicted word
\* missing, while top_ten as a list was not in the printed order and held
\* entries of the same count
C11_Witness ==
    /\ reports # <<>>
    /\ Len(reports[1].printed) = K
    /\ evicted # {}
    /\ report_entries(reports[1].printed) = Range(top_ten)
    /\ \E i \in 1..(K - 1) : top_ten[i][1] = top_ten[i + 1][1]
    /\ print_top10_unsorted(top_ten) # reports[1].printed
    /\ \E i \in 1..(K - 1) : reports[1].printed[i][3] > reports[1].printed[i + 1][3]

\* worker w popped a path that is no regular file and died of the exception
\* __parse_file raised
died_of_path(w) == pc[w] = "crashed" /\ fp[w] # <<>> /\ ~isfile(fs, fp[w])

\* C12: a worker that pops a path that is not a regular file dies of the
\* exception __parse_file raises: it never reports finished and live_threads
\* is never decremented for it, its path is not parsed, and endstate_cb is not
\* invoked in that run, neither before nor after
C12_MissingFileKillsWorker ==
    LET dead == {w \in Workers : died_of_path(w)}
    IN  dead # {} =>
            /\ live_threads >= Cardinality(dead)
            /\ \A w \in dead : fp[w] \notin parsed
            /\ cb_count = 0
            /\ \A t \in Finishers : pc[t] \notin {"endstate_queue", "endstate_cb"}

\* C12 witness: the run has ended, a worker died of a path that is no regular
\* file, main has returned from wait_for_endstate without the callback, and
\* a path submitted later was parsed by another worker
C12_Witness ==
    /\ Terminated
    /\ \E w \in Workers : died_of_path(w)
    /\ pc[MainThread] = "done"
    /\ live_threads >= 1
    /\ \E w \in Workers : pc[w] = "done" /\ fp[w] \in parsed
    /\ cb_count = 0

\* C12 as stated: a worker whose path is not a regular file does not die of
\* it: it goes on draining the queue and has reported finished, so that
\* live_threads was decremented for it, when the run ends
C12_WorkerSurvivesMissingFile ==
    /\ \A w \in Workers : ~died_of_path(w)
    /\ Terminated =>
           \A w \in Workers :
               (\E i \in 1..Len(claimed) : ~isfile(fs, claimed[i]) /\ fp[w] = claimed[i])
               => reported(w)

\* C13: when the root path is not a directory no path is ever queued, no
\* worker is started, and endstate_cb is not invoked: neither main nor any
\* other thread gets to the call
C13_InvalidRootAborts ==
    ~fs.isdir =>
        /\ file_queue = <<>>
        /\ claimed = <<>>
        /\ NumStarted = 0
        /\ live_threads = 0
        /\ cb_count = 0
        /\ \A t \in Finishers : pc[t] # "endstate_cb"

\* C14: a worker never attempts pop(0) on an empty file_queue and never dies
\* between `while file_queue` and the pop, so that every started worker has
\* reported finished when the run ends
C14_ClaimAtomic ==
    /\ \A w \in Workers : pc[w] = "pop" => file_queue # <<>>
    /\ \A w \in Workers : pc[w] = "crashed" => died_of_path(w)
    /\ (Terminated /\ AllRegular) => \A w \in Workers : started(w) => reported(w)

\* C15: with max_threads = 1 and five paths submitted before the worker
\* takes its first step, one worker is started in all, the first; it pops
\* the five paths in the order they were submitted; and when the run has
\* ended it has parsed all five and has gone through notify_thread_finished,
\* which took live_threads from 1 to 0
C15_OneWorkerFifo ==
    /\ NumStarted <= 1
    /\ \A w \in Workers : started(w) => w = SearchThread + 1
    /\ Len(claimed) <= Len(paths)
    /\ claimed = SubSeq(paths, 1, Len(claimed))
    /\ live_threads = (IF NumStarted = 1 /\ ~reported(SearchThread + 1) THEN 1 ELSE 0)
    /\ Terminated =>
           /\ NumStarted = 1
           /\ claimed = paths
           /\ parsed = Range(paths)
           /\ pc[SearchThread + 1] = "done"
           /\ live_threads = 0

\* C15 witness: the run of the five files has ended, the five paths were
\* popped, and four of them were submitted to a full pool
C15_Witness ==
    /\ Terminated
    /\ Len(claimed) = 5
    /\ pc[SearchThread + 1] = "done"
    /\ dst_i = 5
    /\ NumStarted = 1

\* C16: whenever no thread is inside the critical section of add_instance,
\* every entry (count, word) of top_ten has the count master_counts holds for
\* the word, and num_uniq_words is the number of keys of master_counts
C16_TrackerConsistent ==
    tracker_lock = Unlocked =>
        /\ \A i \in 1..Len(top_ten) :
               /\ top_ten[i][2] \in DOMAIN master_counts
               /\ top_ten[i][1] = master_counts[top_ten[i][2]]
        /\ num_uniq_words = Cardinality(DOMAIN master_counts)

\* C16 witness: the lock is free, top_ten holds a word counted three times
\* by different workers, and a worker is about to enter add_instance again
C16_Witness ==
    /\ tracker_lock = Unlocked
    /\ \E i \in 1..Len(top_ten) : top_ten[i][1] = 3
    /\ num_uniq_words >= 4
    /\ NumStarted >= 2
    /\ \E w \in Workers : pc[w] = "add_lock"

\* the word an add_instance call has just been completed for
recorded_word ==
    CHOOSE word \in DOMAIN calls' : word \notin DOMAIN calls \/ calls'[word] # calls[word]

\* the least entry of top_ten: the least count, and the least word among
\* the entries with that count
min_entry(tt) ==
    CHOOSE e \in Range(tt) : \A f \in Range(tt) : f = e \/ cmp_lt(e, f)

\* C17: an add_instance call for a word that is not in a full top_ten puts
\* the word in, in place of the least entry, only if the word's new count is
\* strictly greater than the least count in top_ten; if it is equal or less,
\* top_ten stays as it was and only master_counts changes
C17_EvictionStrict ==
    [][(calls' # calls /\ Len(top_ten) = K /\ recorded_word \notin top_words(top_ten)) =>
          /\ master_counts'[recorded_word] =
                 (IF recorded_word \in DOMAIN master_counts
                  THEN master_counts[recorded_word] + 1 ELSE 1)
          /\ IF master_counts'[recorded_word] > min_count(top_ten)
             THEN Range(top_ten') =
                      (Range(top_ten) \ {min_entry(top_ten)})
                      \cup {<<master_counts'[recorded_word], recorded_word>>}
             ELSE top_ten' = top_ten]_vars

\* C17 witness: top_ten was full after the warm-up, every entry counted
\* twice; a word that is not in the warm-up was recorded three times and is
\* in top_ten now, in place of an evicted word: it was turned away with
\* counts 1 and 2 and let in with count 3
C17_Witness ==
    /\ Len(warmup) = 2 * K
    /\ Len(top_ten) = K
    /\ min_count(top_ten) = 2
    /\ \E word \in top_words(top_ten) :
           /\ \A i \in 1..Len(warmup) : lower(warmup[i]) # word
           /\ calls[word] = 3
           /\ master_counts[word] = 3
    /\ \E word \in evicted : word \notin top_words(top_ten) /\ master_counts[word] = 2

\* C18: once endstate_cb has been invoked, no further finish check comes out
\* true and none invokes it again: no thread newly gets to the call, and no
\* step adds a call to the calls already made
C18_CallbackTerminal ==
    [][cb_count >= 1 =>
          /\ \A t \in Finishers : pc'[t] = "endstate_cb" => pc[t] = "endstate_cb"
          /\ cb_count' = cb_count]_vars

\* thread t has a step it can take now
can_step(t) ==
    /\ pc[t] \notin {"unborn", "done", "crashed"}
    /\ pc[t] = "join" => pc[SearchThread] \in {"done", "crashed"}
    /\ pc[t] \in {"alloc_lock", "dec_lock"} => acquirable(lock)
    /\ pc[t] = "add_lock" => acquirable(tracker_lock)

\* C19: no thread holds the pool lock and the tracker lock at the same time;
\* the holder of a lock is inside that lock's critical section, where it
\* waits for nothing, and a thread waiting for a lock holds none; so in every
\* state that is not the end of the run some thread can take a step
C19_NoDeadlock ==
    /\ \A t \in Threads : ~(lock = t /\ tracker_lock = t)
    /\ lock # Unlocked => pc[lock] \in {"alloc", "dec"}
    /\ tracker_lock # Unlocked => pc[tracker_lock] \in {"add_test", "add_count", "add_top10"}
    /\ \A t \in Threads :
           pc[t] \in {"alloc_lock", "dec_lock", "add_lock"} => (lock # t /\ tracker_lock # t)
    /\ \A t \in Threads : (lock = t \/ tracker_lock = t) => can_step(t)
    /\ ~Terminated => \E t \in Threads : can_step(t)

\* C19 witness: both locks are held, by different threads: the search thread
\* is inside __attempt_alloc_thread while a worker is inside add_instance
C19_Witness ==
    /\ lock = SearchThread
    /\ tracker_lock \in Workers
    /\ pc[tracker_lock] = "add_count"

\* a letter or a digit
alphanumeric(ch) == ch \in (48..57) \cup (65..90) \cup (97..122)

\* the maximal runs of letters and digits of line that are at least two
\* characters long, as <<first position, last position>>
maximal_runs(line) ==
    {r \in (1..Len(line)) \X (1..Len(line)) :
        /\ r[1] < r[2]
        /\ \A k \in r[1]..r[2] : alphanumeric(line[k])
        /\ r[1] = 1 \/ ~alphanumeric(line[r[1] - 1])
        /\ r[2] = Len(line) \/ ~alphanumeric(line[r[2] + 1])}

\* the runs as words, from left to right
RECURSIVE run_words(_, _)
run_words(line, runs) ==
    IF runs = {} THEN <<>>
    ELSE LET r == CHOOSE x \in runs : \A y \in runs : x[1] <= y[1]
         IN  <<SubSeq(line, r[1], r[2])>> \o run_words(line, runs \ {r})

\* C20: what __word_gen has yielded so far is, from left to right, the
\* maximal runs of letters and digits of two or more characters that end
\* before its start position, each as it stands in the line (case kept); at
\* its end that is every such run of the line, which is also what the
\* operator word_gen computes; and a second generator on the same line ends
\* with the same sequence as the first
C20_WordGenRuns ==
    gen.pass >= 1 =>
        /\ gen.yielded =
               run_words(gen.line, {r \in maximal_runs(gen.line) : r[2] < gen.start})
        /\ word_gen_ended =>
               /\ gen.yielded = run_words(gen.line, maximal_runs(gen.line))
               /\ gen.yielded = word_gen(gen.line)
               /\ gen.pass = 2 => gen.yielded = gen.first

\* C20 witness: the second generator has ended on a line of two words, the
\* first of them with a capital letter and a digit
C20_Witness ==
    /\ gen.pass = 2
    /\ word_gen_ended
    /\ Len(gen.yielded) = 2
    /\ gen.yielded[1] = <<66, 55>>
    /\ gen.first = gen.yielded

====
